---- MODULE Spec2Model ----
(***************************************************************************)
(* Model of pyannote-diarization.py: one process invocation, from the      *)
(* import guard at module load to process exit.  The third-party calls     *)
(* (Pipeline.from_pretrained, pipeline.to, pipeline(audio), the            *)
(* is_available probes, hasattr) are opaque: each returns or raises, the   *)
(* choice being made by the environment when the call is made.  Writes to  *)
(* stdout, stderr and the output file are taken to succeed.                *)
(*                                                                         *)
(* Text is a sequence of tokens: json.dumps gives one "json" token that    *)
(* carries the document and its indent, print appends an "nl" token.       *)
(***************************************************************************)
EXTENDS Integers, Sequences, FiniteSets

VARIABLES
    pc,              \* position in the script
    deps_ok,         \* whether `from pyannote.audio import Pipeline; import torch` succeeds
    argv_kind,       \* shape of the command line: "ok", "usage" (rejected), "help"
    audio_path,      \* args.audio_path
    auth_token,      \* args.auth_token (None when --auth-token is absent)
    model_version,   \* args.model_version
    device,          \* args.device
    output,          \* args.output (None when --output is absent)
    cuda_available,  \* torch.cuda.is_available()
    mps_available,   \* torch.backends.mps.is_available()
    old_file,        \* what the file named by --output held when the process started
    file,            \* contents of the file named by --output
    stdout,          \* text written to standard output
    stderr,          \* diagnostics written to standard error
    exit_code,       \* <<>> while running, <<n>> once the process has exited
    calls,           \* calls made on the pipeline library, in order
    pipeline,        \* the pipeline object (None before a load succeeded)
    cache_error,     \* exception bound by `except Exception as cache_error`
    caught,          \* exception bound by `except Exception as e` (line 87)
    yielded,         \* what diarization.itertracks(yield_label=True) yielded
    result           \* value returned by process_audio (<<>> before it returns)

vars == <<pc, deps_ok, argv_kind, audio_path, auth_token, model_version, device,
          output, cuda_available, mps_available, old_file, file, stdout, stderr,
          exit_code, calls, pipeline, cache_error, caught, yielded, result>>

\* Longest sequence of tracks the pipeline yields in the model.
MaxTracks == 3

None == "None"

NoException == [type |-> None, msg |-> <<>>]

NoPipeline == [loaded |-> FALSE, device |-> None]

\* Files present when the process starts (os.path.exists).
ExistingFiles == {"meeting.wav"}

AudioPaths == {"meeting.wav", "missing.wav"}

AuthTokens == {None, "", "hf_token"}

ModelVersions == {"3.1", "2.1"}

\* choices=["cpu", "cuda", "mps"]
DeviceChoices == {"cpu", "cuda", "mps"}

OutputArgs == {None, "", "out.json"}

\* What the output file may hold before the run: nothing, or an earlier result.
OldFileContents == {<<>>, <<[tok |-> "old"], [tok |-> "nl"]>>}

\* Exceptions a third-party call may raise (subclasses of Exception).
RaisedExceptions ==
    { [type |-> "RuntimeError", msg |-> <<"runtime failure">>],
      [type |-> "OSError", msg |-> <<"repository not reachable">>] }

\* (turn, track, speaker) triples of the diarization; the track id is dropped
\* by the loop and is not modelled.
Tracks == [start : 0..1, end : {2}, speaker : {"SPEAKER_00", "SPEAKER_01"}]

RECURSIVE SeqsUpTo(_, _)
SeqsUpTo(S, n) ==
    IF n = 0 THEN {<<>>}
    ELSE LET shorter == SeqsUpTo(S, n - 1)
         IN  shorter \cup {Append(s, x) : s \in {t \in shorter : Len(t) = n - 1}, x \in S}

TrackSeqs == SeqsUpTo(Tracks, MaxTracks)

\* Python truthiness of an optional string argument.
Truthy(s) == s # None /\ s # ""

\* json.dumps(obj) / json.dumps(obj, indent=2); indent 0 stands for the compact
\* form json.dumps gives when no indent is passed.
JsonDumps(obj, indent) == <<[tok |-> "json", doc |-> obj, indent |-> indent]>>

\* print(text, flush=True)
PrintFlush(stream, text) == stream \o text \o <<[tok |-> "nl"]>>

Range(s) == {s[i] : i \in 1..Len(s)}

\* Number of JSON documents in a text.
JsonDocs(text) == Cardinality({i \in 1..Len(text) : text[i].tok = "json"})

TypeOK ==
    /\ pc \in {"import", "parse", "validate", "load_cache", "cache_miss", "move",
               "run", "write", "print", "done"}
    /\ deps_ok \in BOOLEAN
    /\ argv_kind \in {"ok", "usage", "help"}
    /\ audio_path \in AudioPaths
    /\ auth_token \in AuthTokens
    /\ model_version \in ModelVersions
    /\ device \in DeviceChoices
    /\ output \in OutputArgs
    /\ cuda_available \in BOOLEAN
    /\ mps_available \in BOOLEAN
    /\ Len(exit_code) <= 1

Init ==
    /\ pc = "import"
    /\ deps_ok \in BOOLEAN
    /\ argv_kind \in {"ok", "usage", "help"}
    /\ audio_path \in AudioPaths
    /\ auth_token \in AuthTokens
    /\ model_version \in ModelVersions
    /\ device \in DeviceChoices
    /\ output \in OutputArgs
    /\ cuda_available \in BOOLEAN
    /\ mps_available \in BOOLEAN
    /\ old_file \in OldFileContents
    /\ file = old_file
    /\ stdout = <<>>
    /\ stderr = <<>>
    /\ exit_code = <<>>
    /\ calls = <<>>
    /\ pipeline = NoPipeline
    /\ cache_error = NoException
    /\ caught = NoException
    /\ yielded = <<>>
    /\ result = <<>>

\* The command line and the machine: fixed for the whole run.
args == <<deps_ok, argv_kind, audio_path, auth_token, model_version, device, output,
          cuda_available, mps_available, old_file>>

\* sys.exit(n)
Exit(n) ==
    /\ exit_code' = <<n>>
    /\ pc' = "done"

\* Lines 13-18: the import guard.
ImportGuard ==
    /\ pc = "import"
    /\ IF deps_ok
       THEN /\ pc' = "parse"
            /\ UNCHANGED <<stdout, exit_code>>
       ELSE /\ stdout' = PrintFlush(stdout,
                    JsonDumps([error |-> <<"Missing dependencies: ", "ImportError">>], 0))
            /\ Exit(1)
    /\ UNCHANGED <<args, file, stderr, calls, pipeline, cache_error, caught, yielded, result>>

\* Lines 96-103: parser.parse_args().  A rejected command line (for example a
\* --device outside the choices) prints the usage to stderr and exits 2; --help
\* prints the help text to stdout and exits 0.
ParseArgs ==
    /\ pc = "parse"
    /\ \/ /\ argv_kind = "ok"
          /\ pc' = "validate"
          /\ UNCHANGED <<stdout, stderr, exit_code>>
       \/ /\ argv_kind = "usage"
          /\ stderr' = Append(stderr, "usage: error")
          /\ Exit(2)
          /\ UNCHANGED stdout
       \/ /\ argv_kind = "help"
          /\ stdout' = Append(stdout, [tok |-> "help"])
          /\ Exit(0)
          /\ UNCHANGED stderr
    /\ UNCHANGED <<args, file, calls, pipeline, cache_error, caught, yielded, result>>

\* The message of line 107.
NotFoundMessage(path) == <<"Audio file not found: ", path>>

\* Mutant of ValidateAudio: the error is printed but sys.exit(1) is missing, so
\* the run carries on into process_audio.
ValidateAudioNoExit ==
    /\ pc = "validate"
    /\ stdout' = IF audio_path \notin ExistingFiles
                 THEN PrintFlush(stdout,
                          JsonDumps([success |-> FALSE, error |-> NotFoundMessage(audio_path)], 0))
                 ELSE stdout
    /\ pc' = "load_cache"
    /\ UNCHANGED <<args, file, stderr, exit_code, calls, pipeline, cache_error, caught,
                   yielded, result>>

\* Lines 105-109: validate that the audio file exists.
ValidateAudio ==
    /\ pc = "validate"
    /\ IF audio_path \notin ExistingFiles
       THEN /\ stdout' = PrintFlush(stdout,
                    JsonDumps([success |-> FALSE, error |-> NotFoundMessage(audio_path)], 0))
            /\ Exit(1)
       ELSE /\ pc' = "load_cache"
            /\ UNCHANGED <<stdout, exit_code>>
    /\ UNCHANGED <<args, file, stderr, calls, pipeline, cache_error, caught, yielded, result>>

\* Line 35: pipeline_name = f"pyannote/speaker-diarization-{model_version}"
PipelineName(version) == <<"pyannote/speaker-diarization-", version>>

\* Pipeline.from_pretrained(pipeline_name[, use_auth_token=token]) as a logged call.
FromPretrained(token) ==
    [op |-> "from_pretrained", name |-> PipelineName(model_version), use_auth_token |-> token]

\* A freshly loaded pipeline sits on the default device.
LoadedPipeline == [loaded |-> TRUE, device |-> "cpu"]

\* Mutant of FailureEnvelope: the class name of the exception is left out.
FailureEnvelopeNoType(e) == [success |-> FALSE, error |-> e.msg]

\* Lines 88-92: the failure envelope built from the caught exception.
FailureEnvelope(e) == [success |-> FALSE, error |-> e.msg, error_type |-> e.type]

\* Lines 87-93 and the return to main (line 112): exception e reaches the outer
\* handler of process_audio, which returns the failure envelope as JSON text.
Fail(e) ==
    /\ caught' = e
    /\ result' = JsonDumps(FailureEnvelope(e), 2)
    /\ pc' = "write"

\* Lines 37-40: first attempt, from the local cache, without credentials.
LoadCache ==
    /\ pc = "load_cache"
    /\ calls' = Append(calls, FromPretrained(None))
    /\ \/ /\ pipeline' = LoadedPipeline
          /\ stderr' = Append(stderr, "Loaded from local cache (offline mode)")
          /\ pc' = "move"
          /\ UNCHANGED cache_error
       \/ /\ \E e \in RaisedExceptions : cache_error' = e
          /\ pc' = "cache_miss"
          /\ UNCHANGED <<pipeline, stderr>>
    /\ UNCHANGED <<args, file, stdout, exit_code, caught, yielded, result>>

\* Mutant of NoTokenException: the text of the cache-load error is dropped.
NoTokenExceptionBare(err) ==
    [type |-> "Exception", msg |-> <<"Model not in cache and no auth token provided.">>]

\* Line 44: the exception raised on a cache miss when no token was given.
NoTokenException(err) ==
    [type |-> "Exception",
     msg  |-> <<"Model not in cache and no auth token provided. Cache error: ">> \o err.msg]

\* Mutant of CacheMissFallback: the `if not auth_token` test is missing, so the
\* second load is made whatever the token is.
CacheMissFallbackNoTokenCheck ==
    /\ pc = "cache_miss"
    /\ calls' = Append(calls, FromPretrained(auth_token))
    /\ stderr' = Append(stderr, "Cache miss, downloading with auth token")
    /\ \/ /\ pipeline' = LoadedPipeline
          /\ pc' = "move"
          /\ UNCHANGED <<caught, result>>
       \/ /\ \E e \in RaisedExceptions : Fail(e)
          /\ UNCHANGED pipeline
    /\ UNCHANGED <<args, file, stdout, exit_code, cache_error, yielded>>

\* Lines 41-51: the handler of the cache miss.
CacheMissFallback ==
    /\ pc = "cache_miss"
    /\ IF ~Truthy(auth_token)
       THEN /\ Fail(NoTokenException(cache_error))
            /\ UNCHANGED <<calls, pipeline, stderr>>
       ELSE /\ calls' = Append(calls, FromPretrained(auth_token))
            /\ \/ /\ pipeline' = LoadedPipeline
                  /\ stderr' = stderr \o <<"Cache miss, downloading with auth token",
                                           "Downloaded and cached">>
                  /\ pc' = "move"
                  /\ UNCHANGED <<caught, result>>
               \/ /\ \E e \in RaisedExceptions : Fail(e)
                  /\ stderr' = Append(stderr, "Cache miss, downloading with auth token")
                  /\ UNCHANGED pipeline
    /\ UNCHANGED <<args, file, stdout, exit_code, cache_error, yielded>>

\* Mutant of TransferTarget: the is_available() tests are missing.
TransferTargetUnchecked == IF device \in {"cuda", "mps"} THEN device ELSE None

\* Lines 54-57: the device the pipeline is moved to, None when it stays put.
TransferTarget ==
    IF device = "cuda" /\ cuda_available THEN "cuda"
    ELSE IF device = "mps" /\ mps_available THEN "mps"
    ELSE None

\* Lines 53-57: move to GPU if available and requested.
MoveDevice ==
    /\ pc = "move"
    /\ IF TransferTarget # None
       THEN /\ calls' = Append(calls, [op |-> "to", device |-> TransferTarget])
            /\ \/ /\ pipeline' = [pipeline EXCEPT !.device = TransferTarget]
                  /\ pc' = "run"
                  /\ UNCHANGED <<caught, result>>
               \/ /\ \E e \in RaisedExceptions : Fail(e)
                  /\ UNCHANGED pipeline
       ELSE /\ pc' = "run"
            /\ UNCHANGED <<calls, pipeline, caught, result>>
    /\ UNCHANGED <<args, file, stdout, stderr, exit_code, cache_error, yielded>>

\* Lines 65-71: one segment record per yielded triple.
Segment(t) ==
    [speaker |-> t.speaker, start_time |-> t.start, end_time |-> t.end,
     duration |-> t.end - t.start, confidence |-> 1]

Segments(ts) == [i \in 1..Len(ts) |-> Segment(ts[i])]

\* list.sort keeps elements with equal keys in their order: x goes after every
\* element whose start_time is not greater than its own.
RECURSIVE InsertByStart(_, _)
InsertByStart(x, s) ==
    IF s = <<>> THEN <<x>>
    ELSE IF x.start_time < Head(s).start_time THEN <<x>> \o s
    ELSE <<Head(s)>> \o InsertByStart(x, Tail(s))

\* Mutant of SortByStart: an unstable sort, which puts an element before the
\* elements of equal start_time.
RECURSIVE InsertBeforeEqual(_, _)
InsertBeforeEqual(x, s) ==
    IF s = <<>> THEN <<x>>
    ELSE IF x.start_time <= Head(s).start_time THEN <<x>> \o s
    ELSE <<Head(s)>> \o InsertBeforeEqual(x, Tail(s))

RECURSIVE SortByStartUnstable(_)
SortByStartUnstable(s) ==
    IF s = <<>> THEN <<>>
    ELSE InsertBeforeEqual(s[Len(s)], SortByStartUnstable(SubSeq(s, 1, Len(s) - 1)))

\* Line 74: speakers.sort(key=lambda x: x["start_time"])
RECURSIVE SortByStart(_)
SortByStart(s) ==
    IF s = <<>> THEN <<>>
    ELSE InsertByStart(s[Len(s)], SortByStart(SubSeq(s, 1, Len(s) - 1)))

\* Line 82: str(pipeline.device) if hasattr(pipeline, 'device') else device
DeviceUsed(has_device) == IF has_device THEN pipeline.device ELSE device

\* Lines 62-83: the success envelope.
SuccessEnvelope(ts, has_device) ==
    LET speakers == SortByStart(Segments(ts))
    IN  [success        |-> TRUE,
         speakers       |-> speakers,
         total_speakers |-> Cardinality({speakers[i].speaker : i \in 1..Len(speakers)}),
         total_segments |-> Len(speakers),
         model_version  |-> model_version,
         device_used    |-> DeviceUsed(has_device)]

\* Lines 59-85: run the pipeline on the audio and shape the result.
RunPipeline ==
    /\ pc = "run"
    /\ calls' = Append(calls, [op |-> "call", audio |-> audio_path])
    /\ \/ \E ts \in TrackSeqs, has_device \in BOOLEAN :
             /\ yielded' = ts
             /\ result' = JsonDumps(SuccessEnvelope(ts, has_device), 2)
             /\ pc' = "write"
             /\ UNCHANGED caught
       \/ /\ \E e \in RaisedExceptions : Fail(e)
          /\ UNCHANGED yielded
    /\ UNCHANGED <<args, file, stdout, stderr, exit_code, pipeline, cache_error>>

\* Mutant of FileAfterWrite: the file is opened in append mode.
FileAfterAppend(old, text) == old \o text

\* open(path, 'w') followed by f.write(text): the old contents are dropped.
FileAfterWrite(old, text) == text

\* Mutant of WriteOutput: the result is printed first and the file written after.
WriteOutputAfterPrint ==
    /\ \/ /\ pc = "write"
          /\ stdout' = PrintFlush(stdout, result)
          /\ pc' = "write_late"
          /\ UNCHANGED <<file, exit_code>>
       \/ /\ pc = "write_late"
          /\ file' = IF Truthy(output) THEN result ELSE file
          /\ Exit(0)
          /\ UNCHANGED stdout
    /\ UNCHANGED <<args, stderr, calls, pipeline, cache_error, caught, yielded, result>>

\* Lines 119-122: write the result to the --output file, closed on leaving `with`.
WriteOutput ==
    /\ pc = "write"
    /\ file' = IF Truthy(output) THEN FileAfterWrite(file, result) ELSE file
    /\ pc' = "print"
    /\ UNCHANGED <<args, stdout, stderr, exit_code, calls, pipeline, cache_error, caught,
                   yielded, result>>

\* Line 124, then main returns and the interpreter exits 0.
PrintResult ==
    /\ pc = "print"
    /\ stdout' = PrintFlush(stdout, result)
    /\ Exit(0)
    /\ UNCHANGED <<args, file, stderr, calls, pipeline, cache_error, caught, yielded, result>>

Next ==
    \/ ImportGuard
    \/ ParseArgs
    \/ ValidateAudio
    \/ LoadCache
    \/ CacheMissFallback
    \/ MoveDevice
    \/ RunPipeline
    \/ WriteOutput
    \/ PrintResult

Spec == Init /\ [][Next]_vars

(***************************************************************************)
(* The claims.                                                             *)
(***************************************************************************)

IsLoad(c) == c.op = "from_pretrained"

IsTransfer(c) == c.op = "to"

IsInference(c) == c.op = "call"

Loads == SelectSeq(calls, IsLoad)

\* The run got past the import guard and argument parsing.
ReachedValidation == deps_ok /\ argv_kind = "ok"

\* The requested device is one the runtime reports as available.
Available(d) == (d = "cuda" /\ cuda_available) \/ (d = "mps" /\ mps_available)

\* stdout holds exactly one line, a JSON document that reports an error naming
\* the audio path, with success false or absent.
StdoutIsNotFoundError ==
    /\ Len(stdout) = 2
    /\ stdout[1].tok = "json"
    /\ stdout[2].tok = "nl"
    /\ "error" \in DOMAIN stdout[1].doc
    /\ audio_path \in Range(stdout[1].doc.error)
    /\ ("success" \in DOMAIN stdout[1].doc => stdout[1].doc.success = FALSE)

\* C1 as stated: every invocation whose audio_path names no existing file exits
\* non-zero having printed a JSON error object that contains the path, and never
\* attempts a pipeline load or an inference.
C1_Original ==
    audio_path \notin ExistingFiles =>
        /\ calls = <<>>
        /\ pc = "done" => /\ exit_code # <<0>>
                          /\ StdoutIsNotFoundError

\* C1, amended: an invocation whose audio_path names no existing file never
\* attempts a pipeline load or an inference; when it gets as far as the existence
\* check (the imports succeeded and the arguments parsed) it exits 1 having
\* printed one JSON object with success false and an error containing the path.
C1_MissingAudioFails ==
    audio_path \notin ExistingFiles =>
        /\ calls = <<>>
        /\ pipeline = NoPipeline
        /\ result = <<>>
        /\ (pc = "done" /\ ReachedValidation) =>
               /\ exit_code = <<1>>
               /\ StdoutIsNotFoundError
               /\ stdout[1].doc.success = FALSE

C1_Witness ==
    /\ pc = "done"
    /\ ReachedValidation
    /\ audio_path \notin ExistingFiles
    /\ exit_code = <<1>>
    /\ stdout # <<>>

\* C2: every terminated invocation has written exactly one JSON document to
\* standard output.
C2_ExactlyOneJson == pc = "done" => JsonDocs(stdout) = 1

\* C3: the first load carries no credentials; a load with the token happens only
\* after the first load raised and only when a token was given; at most two
\* loads, at most one with the token; a first load that succeeded is the only one.
C3_OrderedAttempts ==
    /\ Len(Loads) <= 2
    /\ Loads = SubSeq(calls, 1, Len(Loads))
    /\ Len(Loads) >= 1 => Loads[1].use_auth_token = None
    /\ Len(Loads) = 2 => /\ cache_error # NoException
                         /\ Truthy(auth_token)
                         /\ Loads[2].use_auth_token = auth_token
    /\ Cardinality({i \in 1..Len(Loads) : Loads[i].use_auth_token # None}) <= 1
    /\ (Len(Loads) >= 1 /\ cache_error = NoException) =>
           /\ Len(Loads) = 1
           /\ pipeline.loaded

C3_Witness ==
    /\ Len(Loads) = 2
    /\ pipeline.loaded
    /\ pc = "done"

\* C4: after the cache load raised with no token given (absent or empty), no
\* further load and no inference is attempted, process_audio returns the failure
\* envelope whose error is the "not in cache / no auth token" explanation
\* followed by the text of the cache-load error, and the process exits 0.
C4_NoTokenFailure ==
    (cache_error # NoException /\ ~Truthy(auth_token)) =>
        /\ Len(calls) = 1
        /\ ~pipeline.loaded
        /\ pc # "cache_miss" =>
               /\ Len(result) = 1
               /\ result[1].doc.success = FALSE
               /\ Head(result[1].doc.error)
                      = "Model not in cache and no auth token provided. Cache error: "
               /\ Tail(result[1].doc.error) = cache_error.msg
        /\ pc = "done" =>
               /\ exit_code = <<0>>
               /\ stdout = result \o <<[tok |-> "nl"]>>

C4_Witness ==
    /\ pc = "done"
    /\ cache_error # NoException
    /\ auth_token = ""
    /\ exit_code = <<0>>

\* C5: past the audio-path check, an exception raised by the model load, the
\* device transfer or the pipeline run is caught in process_audio and becomes an
\* envelope with exactly success=false, error (its message) and error_type (its
\* class name), which is returned, printed, and the process exits 0; a missing
\* audio file exits non-zero before process_audio is reached.
C5_ExitCodeAsymmetry ==
    /\ caught # NoException =>
           /\ Len(result) = 1
           /\ DOMAIN result[1].doc = {"success", "error", "error_type"}
           /\ result[1].doc.success = FALSE
           /\ result[1].doc.error = caught.msg
           /\ result[1].doc.error_type = caught.type
           /\ pc \in {"write", "print", "done"}
    /\ (pc = "done" /\ ReachedValidation /\ audio_path \in ExistingFiles) =>
           /\ exit_code = <<0>>
           /\ result # <<>>
           /\ stdout = result \o <<[tok |-> "nl"]>>
           /\ result[1].doc.success = (caught = NoException)
    /\ (pc = "done" /\ ReachedValidation /\ audio_path \notin ExistingFiles) =>
           /\ exit_code = <<1>>
           /\ result = <<>>
           /\ calls = <<>>

C5_Witness ==
    /\ pc = "done"
    /\ caught \in RaisedExceptions
    /\ \E i \in 1..Len(calls) : IsInference(calls[i])
    /\ exit_code = <<0>>

\* The result is a success envelope.
Succeeded == result # <<>> /\ result[1].doc.success

\* C6: in a success envelope `speakers` holds one segment per yielded triple,
\* sorted by start_time with equal start times in iteration order;
\* total_segments is its length and total_speakers its number of distinct labels.
C6_SortedEnvelope ==
    Succeeded =>
        LET doc == result[1].doc
            sp  == doc.speakers
        IN  /\ Len(sp) = Len(yielded)
            /\ \A i, j \in 1..Len(sp) : i < j => sp[i].start_time <= sp[j].start_time
            /\ \A t \in {yielded[i].start : i \in 1..Len(yielded)} :
                   SelectSeq(sp, LAMBDA x : x.start_time = t)
                       = SelectSeq(Segments(yielded), LAMBDA x : x.start_time = t)
            /\ doc.total_segments = Len(sp)
            /\ doc.total_speakers = Cardinality({sp[i].speaker : i \in 1..Len(sp)})
            /\ doc.total_speakers = Cardinality({yielded[i].speaker : i \in 1..Len(yielded)})

C6_Witness ==
    /\ Succeeded
    /\ Len(yielded) = 3
    /\ yielded[1].start > yielded[2].start
    /\ yielded[2].start = yielded[3].start
    /\ yielded[2].speaker # yielded[3].speaker
    /\ result[1].doc.total_speakers = 2

\* C7: a transfer is only ever made to the requested device, and only when that
\* device is available; when the requested accelerator is unavailable nothing is
\* transferred, the pipeline stays on the default device and is run as for cpu,
\* and a failure can only come from the load or the inference.
C7_DeviceHonouredIfAvailable ==
    /\ \A i \in 1..Len(calls) :
           IsTransfer(calls[i]) => calls[i].device = device /\ Available(device)
    /\ (device \in {"cuda", "mps"} /\ ~Available(device)) =>
           /\ \A i \in 1..Len(calls) : ~IsTransfer(calls[i])
           /\ pipeline.loaded => pipeline.device = "cpu"
           /\ (pipeline.loaded /\ pc \in {"write", "print", "done"}) =>
                  calls[Len(calls)] = [op |-> "call", audio |-> audio_path]
           /\ caught # NoException =>
                  (~pipeline.loaded \/ IsInference(calls[Len(calls)]))

C7_Witness ==
    /\ pc = "done"
    /\ device = "cuda"
    /\ ~cuda_available
    /\ mps_available
    /\ Succeeded

\* C8 as stated: with --output given, the file after the run is byte-identical
\* to what was printed to standard output.
C8_Original == (pc = "done" /\ output # None) => file = stdout

\* C8, amended: with --output naming a path, in a run that passes the audio-path
\* check, the file after the run holds exactly the JSON text that was printed,
\* without the line end that print appends on standard output, and nothing of
\* its earlier contents; a run that exits before process_audio leaves the file
\* as it was.
C8_FileMatchesPrintedText ==
    (pc = "done" /\ Truthy(output)) =>
        IF result # <<>>
        THEN /\ file = result
             /\ stdout = file \o <<[tok |-> "nl"]>>
             /\ JsonDocs(file) = 1
        ELSE file = old_file

C8_Witness ==
    /\ pc = "done"
    /\ Truthy(output)
    /\ old_file # <<>>
    /\ result # <<>>
    /\ file = result

\* C9: in a success envelope device_used is the device the pipeline is on and
\* model_version is the requested model_version.
C9_DeviceUsedIsActual ==
    Succeeded =>
        /\ result[1].doc.device_used = pipeline.device
        /\ result[1].doc.model_version = model_version

\* C10: the output file is untouched until process_audio has returned, and in a
\* run with --output the file holds the complete result before anything is
\* written to standard output.
C10_FileBeforeStdout ==
    /\ (result = <<>> \/ pc = "write") => file = old_file
    /\ pc \in {"load_cache", "cache_miss", "move", "run", "write", "print"} => stdout = <<>>
    /\ (Truthy(output) /\ pc \in {"print", "done"} /\ result # <<>>) => file = result
    /\ (Truthy(output) /\ ReachedValidation /\ stdout # <<>> /\ result # <<>>) =>
           /\ file = result
           /\ stdout = result \o <<[tok |-> "nl"]>>

C10_Witness ==
    /\ pc = "print"
    /\ Truthy(output)
    /\ old_file # <<>>
    /\ file = result
    /\ stdout = <<>>
====
